---------------------------- MODULE Spec2Model ----------------------------
(***************************************************************************)
(* Model of gpio-manager/gpioman.c: one gpio_line_state instance, its      *)
(* sysfs attribute writes, its interval timer callback (low-resolution and *)
(* high-resolution builds) and its kobject life cycle.                     *)
(***************************************************************************)
EXTENDS Integers, Naturals, Sequences, FiniteSets, TLC

(* ------------------------------ constants ------------------------------ *)

LOGIC_HIGH == 1
LOGIC_LOW == 0
MS_PER_SEC == 1000
US_PER_SEC == 1000000
\* HZ is a kernel build constant; 250 is the value the source's comment uses.
KERNEL_HERTZ == 250
EINVAL == 22
ERANGE == 34
INT_MAX == 2147483647

(* ------------------------------- bounds -------------------------------- *)

\* largest on_cycles / off_cycles value written
MaxCycles == 2
\* largest number of attribute handles held at once
MaxHandles == 2
\* the callback is not fired once counter has run past every legitimate value
MaxCounter == (2 * MaxCycles) + 2

(* --------------------- text of an attribute write ---------------------- *)

Digits == <<"0", "1", "2", "3", "4", "5", "6", "7", "8", "9">>

DigitVals == [c \in {Digits[i] : i \in 1..10} |-> (CHOOSE i \in 1..10 : Digits[i] = c) - 1]

IsDigit(c) == c \in DOMAIN DigitVals

DigitVal(c) == DigitVals[c]

\* decimal text of a natural number, as sprintf("%u") prints it
RECURSIVE Fmt(_)
Fmt(n) == IF n < 10 THEN <<Digits[n + 1]>>
          ELSE Append(Fmt(n \div 10), Digits[(n % 10) + 1])

\* value of a digit string read left to right; -1 once it exceeds INT_MAX
RECURSIVE ParseDigits(_, _)
ParseDigits(s, acc) ==
    IF s = <<>> THEN acc
    ELSE IF acc = -1 \/ acc > (INT_MAX - DigitVal(Head(s))) \div 10 THEN -1
    ELSE ParseDigits(Tail(s), (acc * 10) + DigitVal(Head(s)))

\* kstrtoint(buf, 10, &var): optional sign, decimal digits, at most one
\* trailing newline; rc is 0, -EINVAL or -ERANGE.  (The one text whose value
\* is INT_MIN is reported out of range here; it is not among the inputs.)
kstrtoint(buf) ==
    LET neg  == buf # <<>> /\ Head(buf) = "-"
        sgn  == buf # <<>> /\ Head(buf) \in {"-", "+"}
        b1   == IF sgn THEN Tail(buf) ELSE buf
        b2   == IF b1 # <<>> /\ b1[Len(b1)] = "\n" THEN SubSeq(b1, 1, Len(b1) - 1) ELSE b1
        ok   == b2 # <<>> /\ \A i \in 1..Len(b2) : IsDigit(b2[i])
        mag  == IF ok THEN ParseDigits(b2, 0) ELSE 0
    IN  IF ~ok THEN [rc |-> -EINVAL, val |-> 0]
        ELSE IF mag = -1 THEN [rc |-> -ERANGE, val |-> 0]
        ELSE [rc |-> 0, val |-> IF neg THEN -mag ELSE mag]

Attributes == {"status", "freq", "on_cycles", "off_cycles"}

\* frequencies written: none, slow, the jiffy rate and just above it, the
\* microsecond rate and just above it
FreqVals == {0, 1, KERNEL_HERTZ, KERNEL_HERTZ + 1, US_PER_SEC, US_PER_SEC + 1}

\* texts that do not parse or parse to a negative number
BadBufs == {<<"-", "1">>, <<"x">>, <<>>, <<"1", "x">>}

\* status values written: off, on, and one value that is neither
StatusVals == {LOGIC_LOW, LOGIC_HIGH, 2}

StatusBufs == {Fmt(n) : n \in StatusVals} \cup {Append(Fmt(1), "\n")}
FreqBufs == {Fmt(f) : f \in FreqVals}
CycleBufs == {Fmt(n) : n \in 0..MaxCycles}

\* rc and var of kstrtoint for every text written
Parsed == [b \in BadBufs \cup StatusBufs \cup FreqBufs \cup CycleBufs |-> kstrtoint(b)]

\* the texts written to each attribute
Bufs(attribute) ==
    BadBufs \cup
    CASE attribute = "status" -> StatusBufs
      [] attribute = "freq"   -> FreqBufs
      [] OTHER                -> CycleBufs

(* -------------------------------- state -------------------------------- *)

VARIABLES
    hr,               \* TRUE: built with USE_HR_TIMERS; FALSE: timer_list build
    alloc,            \* the gpio_line_state memory: "none", "live" or "freed"
    bound,            \* the platform device is bound (drvdata set, not removed)
    kref,             \* reference count of gls->kobj
    n_get,            \* kobject_get calls made by attribute users
    n_put,            \* kobject_put calls made by attribute users
    in_list,          \* gls->list is linked into the global list
    n_gpiod_put,      \* gpiod_put calls made on the descriptor
    n_release,        \* runs of the kobject release function
    pulse_period,
    on_cycles,
    off_cycles,
    counter,
    pin_ctl_enabled,
    pin_logic_level,
    timer_pending,    \* gls->timer is armed (pending / enqueued)
    gpio_value,       \* value last given to gpiod_set_value (or by gpiod_get)
    ret,              \* value returned by the last attribute write
    last,             \* attribute and value of the last accepted write
    run,              \* callbacks since that write that applied gpio_value in a row
    first_phase,      \* no callback has changed the output since that write
    rd,               \* outcome of the last attribute read
    bug,              \* BUG_ON has fired
    cb,               \* where the running timer callback stands, "idle" if none runs
    wr                \* the write waiting in hrtimer_cancel, "idle" if none waits

lineVars == <<pulse_period, on_cycles, off_cycles, counter, pin_ctl_enabled, pin_logic_level>>
hwVars   == <<timer_pending, gpio_value>>
lifeVars == <<alloc, bound, kref, n_get, n_put, in_list, n_gpiod_put, n_release>>
histVars == <<ret, last, run, first_phase, rd, bug>>
raceVars == <<cb, wr>>
vars     == <<hr, lifeVars, lineVars, hwVars, histVars, raceVars>>

NoWrite == [op |-> "idle", count |-> 0]

NoRead == [fault |-> FALSE, text |-> <<>>]

\* the release callback is waiting in its synchronous timer cancel
Releasing == [op |-> "release", count |-> 0]

\* attribute handles currently held
handles == n_get - n_put

Min(a, b) == IF a < b THEN a ELSE b

Init ==
    /\ hr \in BOOLEAN
    /\ alloc = "none" /\ bound = FALSE /\ kref = 0 /\ n_get = 0 /\ n_put = 0
    /\ in_list = FALSE /\ n_gpiod_put = 0 /\ n_release = 0
    /\ pulse_period = 0 /\ on_cycles = 0 /\ off_cycles = 0 /\ counter = 0
    /\ pin_ctl_enabled = FALSE /\ pin_logic_level = LOGIC_LOW
    /\ timer_pending = FALSE /\ gpio_value = LOGIC_LOW
    /\ ret = 0 /\ last = [op |-> "none", val |-> 0] /\ run = 0 /\ bug = FALSE
    /\ first_phase = TRUE /\ rd = NoRead
    /\ cb = "idle" /\ wr = NoWrite

(* ------------------------------ life cycle ----------------------------- *)

\* the kobject release callback: cancel the timer, drive the line low, put
\* the descriptor, unlink and free
gpio_line_state_release_func ==
    /\ timer_pending' = FALSE
    /\ gpio_value' = LOGIC_LOW
    /\ n_gpiod_put' = n_gpiod_put + 1
    /\ in_list' = FALSE
    /\ alloc' = "freed"
    /\ n_release' = n_release + 1

\* kobject_put(&gls->kobj): drop one reference, release at zero
kobject_put ==
    /\ kref' = kref - 1
    /\ IF kref - 1 = 0
       THEN gpio_line_state_release_func
       ELSE UNCHANGED <<timer_pending, gpio_value, n_gpiod_put, in_list, alloc, n_release>>

\* initialize_gls as it would be if it left on_cycles and off_cycles as
\* kzalloc made them
initialize_gls_zero_cycles(kobj_ok) ==
    /\ pulse_period' = 0
    /\ pin_logic_level' = LOGIC_LOW
    /\ UNCHANGED <<on_cycles, off_cycles, counter, pin_ctl_enabled>>
    /\ IF kobj_ok
       THEN /\ kref' = 1 /\ in_list' = TRUE /\ alloc' = "live" /\ bound' = TRUE
            /\ timer_pending' = FALSE /\ gpio_value' = LOGIC_LOW
            /\ UNCHANGED <<n_gpiod_put, n_release>>
       ELSE /\ kref' = 0 /\ bound' = FALSE
            /\ gpio_line_state_release_func

\* initialize_gls: defaults, timer set up, list_add, kobject_init_and_add;
\* kobj_ok is whether kobject_init_and_add succeeded
initialize_gls(kobj_ok) ==
    /\ pulse_period' = 0
    /\ pin_logic_level' = LOGIC_LOW
    /\ on_cycles' = 1
    /\ off_cycles' = 1
    /\ UNCHANGED <<counter, pin_ctl_enabled>>
    /\ IF kobj_ok
       THEN /\ kref' = 1 /\ in_list' = TRUE /\ alloc' = "live" /\ bound' = TRUE
            /\ timer_pending' = FALSE /\ gpio_value' = LOGIC_LOW
            /\ UNCHANGED <<n_gpiod_put, n_release>>
       ELSE /\ kref' = 0 /\ bound' = FALSE
            /\ gpio_line_state_release_func

\* gpio_probe_func: outcome is which call fails, if any
gpio_probe_func(outcome) ==
    /\ alloc = "none" /\ ~bound /\ n_gpiod_put = 0
    /\ last.op = "none"
    /\ last' = [op |-> "probe", val |-> 0]
    /\ UNCHANGED <<hr, raceVars, n_get, n_put, ret, run, first_phase, rd, bug>>
    /\ CASE outcome \in {"of_err", "gpiod_err"} ->
                UNCHANGED <<alloc, bound, kref, in_list, n_gpiod_put, n_release,
                            lineVars, hwVars>>
         [] outcome = "nomem" ->
                /\ n_gpiod_put' = n_gpiod_put + 1
                /\ UNCHANGED <<alloc, bound, kref, in_list, n_release, lineVars, hwVars>>
         [] outcome = "kobj_err" -> initialize_gls(FALSE)
         [] outcome = "ok" -> initialize_gls(TRUE)

ProbeOutcomes == {"of_err", "gpiod_err", "nomem", "kobj_err", "ok"}

\* an attribute user takes a reference on the kobject
kobject_get ==
    /\ alloc = "live" /\ kref > 0 /\ ~bug
    /\ n_get < MaxHandles
    /\ n_get' = n_get + 1
    /\ kref' = kref + 1
    /\ UNCHANGED <<hr, raceVars, alloc, bound, n_put, in_list, n_gpiod_put, n_release,
                   lineVars, hwVars, histVars>>

\* an attribute user drops its reference
handle_put ==
    /\ alloc = "live" /\ handles > 0 /\ ~bug
    /\ n_put' = n_put + 1
    /\ kobject_put
    /\ UNCHANGED <<hr, raceVars, bound, n_get, lineVars, histVars>>

\* rm_func as it would be if it tore the line down itself instead of dropping
\* its reference
rm_func_frees ==
    /\ alloc = "live" /\ bound /\ ~bug
    /\ bound' = FALSE
    /\ kref' = kref - 1
    /\ gpio_line_state_release_func
    /\ UNCHANGED <<hr, raceVars, n_get, n_put, lineVars, histVars>>

\* rm_func: the binding is withdrawn; the driver drops its reference
rm_func ==
    /\ alloc = "live" /\ bound /\ ~bug
    /\ bound' = FALSE
    /\ kobject_put
    /\ UNCHANGED <<hr, raceVars, n_get, n_put, lineVars, histVars>>

(* --------------------------- attribute writes -------------------------- *)

\* set_gls_frequency(gls, freq): the new pulse_period, and what the enabled
\* branch does to the output and the timer
set_gls_frequency(freq) ==
    LET f  == IF ~hr /\ freq > KERNEL_HERTZ THEN KERNEL_HERTZ ELSE freq
        pp == IF hr
              THEN (IF freq > 0 THEN US_PER_SEC \div freq ELSE 0)
              ELSE (IF f > 0 THEN MS_PER_SEC \div f ELSE 0)
    IN  [pulse_period  |-> pp,
         gpio_value    |-> IF pin_ctl_enabled THEN LOGIC_HIGH ELSE gpio_value,
         timer_pending |-> IF pin_ctl_enabled THEN (f > 0) ELSE timer_pending]

\* the "status" branch as it would be if status=0 left the timer alone
status_store_no_cancel(var) ==
    CASE var = LOGIC_LOW ->
            [timer_pending |-> timer_pending, pin_ctl_enabled |-> FALSE,
             pin_logic_level |-> LOGIC_LOW, gpio_value |-> LOGIC_LOW]
      [] var = LOGIC_HIGH ->
            [timer_pending |-> IF pulse_period > 0 THEN TRUE ELSE timer_pending,
             pin_ctl_enabled |-> TRUE,
             pin_logic_level |-> LOGIC_HIGH, gpio_value |-> LOGIC_HIGH]
      [] OTHER ->
            [timer_pending |-> timer_pending, pin_ctl_enabled |-> pin_ctl_enabled,
             pin_logic_level |-> pin_logic_level, gpio_value |-> gpio_value]

\* the "status" branch of write_sysfs_attribute: the switch on var
status_store(var) ==
    CASE var = LOGIC_LOW ->
            [timer_pending |-> FALSE, pin_ctl_enabled |-> FALSE,
             pin_logic_level |-> LOGIC_LOW, gpio_value |-> LOGIC_LOW]
      [] var = LOGIC_HIGH ->
            [timer_pending |-> IF pulse_period > 0 THEN TRUE ELSE timer_pending,
             pin_ctl_enabled |-> TRUE,
             pin_logic_level |-> LOGIC_HIGH, gpio_value |-> LOGIC_HIGH]
      [] OTHER ->
            [timer_pending |-> timer_pending, pin_ctl_enabled |-> pin_ctl_enabled,
             pin_logic_level |-> pin_logic_level, gpio_value |-> gpio_value]

\* write_sysfs_attribute: a user writes the text buf to one attribute file
write_sysfs_attribute(attribute, buf) ==
    /\ alloc = "live" /\ ~bug
    /\ UNCHANGED <<hr, raceVars, lifeVars, rd, bug>>
    /\ LET r     == Parsed[buf]
           var   == r.val
           count == Len(buf)
       IN  IF r.rc < 0 \/ var < 0
           THEN /\ ret' = EINVAL
                /\ UNCHANGED <<lineVars, hwVars, last, run, first_phase>>
           ELSE /\ counter' = 0
                /\ ret' = count
                /\ last' = [op |-> attribute, val |-> var]
                /\ run' = 0
                /\ first_phase' = TRUE
                /\ CASE attribute = "status" ->
                          LET st == status_store(var)
                          IN  /\ timer_pending' = st.timer_pending
                              /\ pin_ctl_enabled' = st.pin_ctl_enabled
                              /\ pin_logic_level' = st.pin_logic_level
                              /\ gpio_value' = st.gpio_value
                              /\ UNCHANGED <<pulse_period, on_cycles, off_cycles>>
                     [] attribute = "freq" ->
                          LET fr == set_gls_frequency(var)
                          IN  /\ pulse_period' = fr.pulse_period
                              /\ gpio_value' = fr.gpio_value
                              /\ timer_pending' = fr.timer_pending
                              /\ UNCHANGED <<on_cycles, off_cycles, pin_ctl_enabled,
                                             pin_logic_level>>
                     [] attribute = "on_cycles" ->
                          /\ on_cycles' = var
                          /\ UNCHANGED <<pulse_period, off_cycles, pin_ctl_enabled,
                                         pin_logic_level, hwVars>>
                     [] attribute = "off_cycles" ->
                          /\ off_cycles' = var
                          /\ UNCHANGED <<pulse_period, on_cycles, pin_ctl_enabled,
                                         pin_logic_level, hwVars>>

(* --------------------------- attribute reads --------------------------- *)

\* the timer ticks per second that the freq attribute is derived from
TicksPerSecond == IF hr THEN US_PER_SEC ELSE MS_PER_SEC

\* what the integer division by a pulse_period of 0 can do, by processor: trap
\* (the reader dies in a kernel oops), or no trap and a quotient of 0
DivZeroOutcomes == {"fault", "zero"}

\* read_sysfs_attribute: a user reads one attribute file; outcome is what a
\* division by zero does, should there be one
read_sysfs_attribute(attribute, outcome) ==
    /\ alloc = "live" /\ ~bug
    /\ LET var == CASE attribute = "status" -> (IF pin_ctl_enabled THEN 1 ELSE 0)
                    [] attribute = "on_cycles" -> on_cycles
                    [] attribute = "off_cycles" -> off_cycles
                    [] attribute = "freq" ->
                          IF pulse_period = 0 THEN 0 ELSE TicksPerSecond \div pulse_period
       IN  rd' = IF attribute = "freq" /\ pulse_period = 0 /\ outcome = "fault"
                 THEN [fault |-> TRUE, text |-> <<>>]
                 ELSE [fault |-> FALSE, text |-> Fmt(var) \o <<"\n">>]
    /\ UNCHANGED <<hr, raceVars, lifeVars, lineVars, hwVars, ret, last, run,
                   first_phase, bug>>

(* ---------------------------- timer callback --------------------------- *)

\* the state machine as it would be if the counter were incremented before it
\* is compared (++counter)
interval_step_preinc(level, cnt, on, off) ==
    IF level = LOGIC_HIGH
    THEN IF cnt + 1 = on
         THEN IF off > 0
              THEN [level |-> LOGIC_LOW, counter |-> cnt + 1, bug |-> FALSE]
              ELSE [level |-> LOGIC_HIGH, counter |-> 0, bug |-> FALSE]
         ELSE [level |-> LOGIC_HIGH, counter |-> cnt + 1, bug |-> FALSE]
    ELSE IF off = 0
         THEN [level |-> level, counter |-> cnt, bug |-> TRUE]
         ELSE IF cnt + 1 = on + off
              THEN [level |-> LOGIC_HIGH, counter |-> 1, bug |-> FALSE]
              ELSE [level |-> LOGIC_LOW, counter |-> cnt + 1, bug |-> FALSE]

\* the state machine of the interval callback: from level and counter to the
\* next level and counter, or to the BUG_ON
interval_step(level, cnt, on, off) ==
    IF level = LOGIC_HIGH
    THEN IF cnt = on
         THEN IF off > 0
              THEN [level |-> LOGIC_LOW, counter |-> cnt + 1, bug |-> FALSE]
              ELSE [level |-> LOGIC_HIGH, counter |-> 0, bug |-> FALSE]
         ELSE [level |-> LOGIC_HIGH, counter |-> cnt + 1, bug |-> FALSE]
    ELSE IF off = 0
         THEN [level |-> level, counter |-> cnt, bug |-> TRUE]
         ELSE IF cnt = on + off
              THEN [level |-> LOGIC_HIGH, counter |-> 1, bug |-> FALSE]
              ELSE [level |-> LOGIC_LOW, counter |-> cnt + 1, bug |-> FALSE]

\* what a whole run of the callback does to the line and the timer, which was
\* taken off its queue when it expired: lr_interval_cb re-arms before the state
\* machine, hr_interval_cb restarts after it
interval_cb ==
    IF ~pin_ctl_enabled
    THEN /\ timer_pending' = FALSE
         /\ UNCHANGED <<lineVars, gpio_value, histVars>>
    ELSE LET st == interval_step(pin_logic_level, counter, on_cycles, off_cycles)
         IN  /\ timer_pending' = (~hr \/ ~st.bug)
             /\ UNCHANGED <<pulse_period, on_cycles, off_cycles, pin_ctl_enabled,
                            ret, last, rd>>
             /\ IF st.bug
                THEN /\ bug' = TRUE
                     /\ UNCHANGED <<counter, pin_logic_level, gpio_value, run, first_phase>>
                ELSE /\ counter' = st.counter
                     /\ pin_logic_level' = st.level
                     /\ gpio_value' = st.level
                     /\ run' = IF st.level = gpio_value THEN Min(run + 1, MaxCounter) ELSE 1
                     /\ first_phase' = (first_phase /\ st.level = gpio_value)
                     /\ UNCHANGED bug

\* the timer_list expires and lr_interval_cb runs to its end
lr_interval_cb ==
    /\ ~hr /\ alloc = "live" /\ ~bug
    /\ timer_pending /\ cb = "idle"
    /\ counter < MaxCounter
    /\ interval_cb
    /\ UNCHANGED <<hr, raceVars, lifeVars>>

\* the hrtimer expires and hr_interval_cb runs to its end
hr_interval_cb ==
    /\ hr /\ alloc = "live" /\ ~bug
    /\ timer_pending /\ cb = "idle"
    /\ counter < MaxCounter
    /\ interval_cb
    /\ UNCHANGED <<hr, raceVars, lifeVars>>

(* ---------------------------- specification ---------------------------- *)

Next ==
    \/ \E o \in ProbeOutcomes : gpio_probe_func(o)
    \/ \E a \in Attributes : \E b \in Bufs(a) : write_sysfs_attribute(a, b)
    \/ lr_interval_cb
    \/ hr_interval_cb
    \/ kobject_get
    \/ handle_put
    \/ rm_func

Spec == Init /\ [][Next]_vars

(* --------------------------- module unload ----------------------------- *)

\* the module exit function has run
Unloaded == last.op = "cleanup"

\* what the list walk of cleanup does once the entry it stands on has been
\* unlinked and freed by the release it triggered (list_for_each_entry reads
\* the freed entry's next pointer): it faults, or it reads a value that ends it
WalkOutcomes == {"faults", "ends"}

\* cleanup: platform_driver_unregister runs rm_func on a line that is bound,
\* then kobject_put is called on every line that is still on the list; last.val
\* tells whether the list walk faulted
cleanup(walk) ==
    /\ ~Unloaded /\ ~bug
    /\ LET removed == alloc = "live" /\ bound
           k1      == IF removed THEN kref - 1 ELSE kref
           rel1    == removed /\ k1 = 0
           listed  == alloc = "live" /\ in_list /\ ~rel1
           k2      == IF listed THEN k1 - 1 ELSE k1
           rel2    == listed /\ k2 = 0
       IN  /\ bound' = FALSE
           /\ kref' = k2
           /\ IF rel1 \/ rel2
              THEN gpio_line_state_release_func
              ELSE UNCHANGED <<timer_pending, gpio_value, n_gpiod_put, in_list,
                               alloc, n_release>>
           /\ last' = [op |-> "cleanup",
                       val |-> IF rel2 /\ walk = "faults" THEN 1 ELSE 0]
    /\ UNCHANGED <<hr, raceVars, n_get, n_put, lineVars, ret, run, first_phase, rd, bug>>

\* what kobject_put does on a kobject that has been freed: its counter goes
\* below zero, or it is taken for the last reference and the release runs again
PutFreedOutcomes == {"below_zero", "released_again"}

\* an attribute user drops its reference to a line that has been freed
handle_put_freed(outcome) ==
    /\ alloc = "freed" /\ handles > 0 /\ ~bug
    /\ n_put' = n_put + 1
    /\ kref' = kref - 1
    /\ IF outcome = "released_again"
       THEN /\ n_release' = n_release + 1
            /\ n_gpiod_put' = n_gpiod_put + 1
       ELSE UNCHANGED <<n_release, n_gpiod_put>>
    /\ UNCHANGED <<hr, raceVars, alloc, bound, n_get, in_list, lineVars, hwVars,
                   histVars>>

\* the steps of Spec, of which the attribute files and the timer callbacks are
\* there only as long as the module is, and the steps of the unload
NextUnload ==
    \/ \E o \in ProbeOutcomes : gpio_probe_func(o)
    \/ ~Unloaded /\ \E a \in Attributes : \E b \in Bufs(a) : write_sysfs_attribute(a, b)
    \/ ~Unloaded /\ lr_interval_cb
    \/ ~Unloaded /\ hr_interval_cb
    \/ kobject_get
    \/ handle_put
    \/ rm_func
    \/ \E w \in WalkOutcomes : cleanup(w)
    \/ \E o \in PutFreedOutcomes : handle_put_freed(o)

SpecUnload == Init /\ [][NextUnload]_vars

(* -------------------- the writes beside the reads ---------------------- *)

NextRead ==
    \/ \E o \in ProbeOutcomes : gpio_probe_func(o)
    \/ \E a \in Attributes : \E b \in Bufs(a) : write_sysfs_attribute(a, b)
    \/ \E a \in Attributes : \E o \in DivZeroOutcomes : read_sysfs_attribute(a, o)

SpecRead == Init /\ [][NextRead]_vars

(* ------------- the callback step by step, beside the writes ------------ *)

\* the write reaches hrtimer_cancel, which waits for a running callback: the
\* status=0 branch, and the freq=0 branch of an enabled line, of the hrtimer
\* build
reaches_hrtimer_cancel(attribute, buf) ==
    LET r == Parsed[buf]
    IN  /\ hr /\ r.rc = 0 /\ r.val = 0
        /\ \/ attribute = "status"
           \/ attribute = "freq" /\ pin_ctl_enabled

\* a write begins: it runs to its end, or up to its hrtimer_cancel
write_enter(attribute, buf) ==
    /\ wr = NoWrite
    /\ IF reaches_hrtimer_cancel(attribute, buf)
       THEN /\ alloc = "live" /\ ~bug
            /\ counter' = 0
            /\ wr' = [op |-> attribute, count |-> Len(buf)]
            /\ IF attribute = "freq"
               THEN /\ pulse_period' = set_gls_frequency(0).pulse_period
                    /\ gpio_value' = set_gls_frequency(0).gpio_value
               ELSE UNCHANGED <<pulse_period, gpio_value>>
            /\ UNCHANGED <<hr, cb, lifeVars, histVars, on_cycles, off_cycles,
                           pin_ctl_enabled, pin_logic_level, timer_pending>>
       ELSE write_sysfs_attribute(attribute, buf)

\* hrtimer_cancel returns once no callback runs; the write runs to its end
hrtimer_cancel_return ==
    /\ wr.op \in {"status", "freq"} /\ cb = "idle" /\ alloc = "live" /\ ~bug
    /\ timer_pending' = FALSE
    /\ IF wr.op = "status"
       THEN /\ pin_ctl_enabled' = FALSE
            /\ pin_logic_level' = LOGIC_LOW
            /\ gpio_value' = LOGIC_LOW
       ELSE UNCHANGED <<pin_ctl_enabled, pin_logic_level, gpio_value>>
    /\ ret' = wr.count
    /\ last' = [op |-> wr.op, val |-> 0]
    /\ run' = 0
    /\ first_phase' = TRUE
    /\ wr' = NoWrite
    /\ UNCHANGED <<hr, cb, lifeVars, rd, bug, pulse_period, on_cycles, off_cycles, counter>>

\* the timer expires: it is taken off its queue and the callback is entered
timer_expire ==
    /\ alloc = "live" /\ ~bug
    /\ timer_pending /\ cb = "idle"
    /\ counter < MaxCounter
    /\ timer_pending' = FALSE
    /\ cb' = "entered"
    /\ UNCHANGED <<hr, wr, lifeVars, lineVars, gpio_value, histVars>>

\* if (!gls->pin_ctl_enabled) return;
cb_enter ==
    /\ cb = "entered"
    /\ cb' = IF ~pin_ctl_enabled THEN "idle" ELSE IF hr THEN "compute" ELSE "rearm"
    /\ UNCHANGED <<hr, wr, lifeVars, lineVars, hwVars, histVars>>

\* lr_interval_cb re-arms first: mod_timer
lr_rearm ==
    /\ cb = "rearm"
    /\ timer_pending' = TRUE
    /\ cb' = "compute"
    /\ UNCHANGED <<hr, wr, lifeVars, lineVars, gpio_value, histVars>>

\* the state machine moves level and counter, or hits the BUG_ON
cb_compute ==
    /\ cb = "compute" /\ ~bug
    /\ LET st == interval_step(pin_logic_level, counter, on_cycles, off_cycles)
       IN  IF st.bug
           THEN /\ bug' = TRUE
                /\ UNCHANGED <<cb, counter, pin_logic_level>>
           ELSE /\ counter' = st.counter
                /\ pin_logic_level' = st.level
                /\ cb' = "apply"
                /\ UNCHANGED bug
    /\ UNCHANGED <<hr, wr, lifeVars, hwVars, pulse_period, on_cycles, off_cycles,
                   pin_ctl_enabled, ret, last, run, first_phase, rd>>

\* gpiod_set_value(gls->gpio_descriptor, gls->pin_logic_level)
cb_apply ==
    /\ cb = "apply"
    /\ gpio_value' = pin_logic_level
    /\ run' = IF pin_logic_level = gpio_value THEN Min(run + 1, MaxCounter) ELSE 1
    /\ first_phase' = (first_phase /\ pin_logic_level = gpio_value)
    /\ cb' = IF hr THEN "restart" ELSE "idle"
    /\ UNCHANGED <<hr, wr, lifeVars, lineVars, timer_pending, ret, last, rd, bug>>

\* hr_interval_cb forwards the timer and returns HRTIMER_RESTART
hr_restart ==
    /\ cb = "restart"
    /\ timer_pending' = TRUE
    /\ cb' = "idle"
    /\ UNCHANGED <<hr, wr, lifeVars, lineVars, gpio_value, histVars>>

NextRace ==
    \/ \E o \in ProbeOutcomes : gpio_probe_func(o)
    \/ \E a \in Attributes : \E b \in Bufs(a) : write_enter(a, b)
    \/ hrtimer_cancel_return
    \/ timer_expire
    \/ cb_enter
    \/ lr_rearm
    \/ cb_compute
    \/ cb_apply
    \/ hr_restart

SpecRace == Init /\ [][NextRace]_vars

(* ------------- the release beside the callback step by step ------------ *)

\* rm_func drops the last reference: the release callback begins and reaches
\* its timer cancel (the attribute files are gone, no write is under way)
rm_func_enter ==
    /\ alloc = "live" /\ bound /\ ~bug
    /\ wr = NoWrite /\ kref = 1
    /\ bound' = FALSE
    /\ kref' = kref - 1
    /\ wr' = Releasing
    /\ UNCHANGED <<hr, cb, alloc, n_get, n_put, in_list, n_gpiod_put, n_release,
                   lineVars, hwVars, histVars>>

\* the release as it would be with a cancel that does not wait for a running
\* callback (del_timer)
release_return_nowait ==
    /\ wr = Releasing /\ alloc = "live"
    /\ gpio_line_state_release_func
    /\ wr' = NoWrite
    /\ UNCHANGED <<hr, cb, bound, kref, n_get, n_put, lineVars, histVars>>

\* hrtimer_cancel / del_timer_sync returns once no callback runs and the timer
\* is off its queue; the release runs to its end
release_return ==
    /\ wr = Releasing /\ alloc = "live"
    /\ cb = "idle"
    /\ gpio_line_state_release_func
    /\ wr' = NoWrite
    /\ UNCHANGED <<hr, cb, bound, kref, n_get, n_put, lineVars, histVars>>

NextTeardown ==
    \/ NextRace
    \/ rm_func_enter
    \/ release_return

SpecTeardown == Init /\ [][NextTeardown]_vars

(* -------------------------------- claims ------------------------------- *)

\* the last accepted write was status=1 and the line pulses since
Pulsing ==
    /\ alloc = "live" /\ ~bug
    /\ last = [op |-> "status", val |-> LOGIC_HIGH]
    /\ pin_ctl_enabled /\ pulse_period > 0

\* C1 (periodicity law): on a line enabled by status=1 with a positive period
\* and on_cycles + off_cycles > 0, with no write since, the callbacks apply
\* HIGH for no more than on_cycles ticks in a row (when there are off cycles)
\* and LOW for no more than off_cycles ticks in a row.
C1_PeriodicityRuns ==
    (Pulsing /\ on_cycles + off_cycles > 0) =>
        /\ (gpio_value = LOGIC_HIGH /\ off_cycles > 0) => run <= on_cycles
        /\ gpio_value = LOGIC_LOW => run <= off_cycles

\* C2 (reference-count law): once a line has been bound, the release function
\* has run exactly when the binding is withdrawn and every handle taken has
\* been released, it has run at most once, and its run cancelled the timer,
\* drove the output LOW, put the descriptor once, unlinked and freed the line.
C2_RefcountLaw ==
    alloc # "none" =>
        /\ n_release = (IF ~bound /\ handles = 0 THEN 1 ELSE 0)
        /\ n_release = 0 =>
              /\ alloc = "live" /\ in_list /\ n_gpiod_put = 0
              /\ kref = handles + (IF bound THEN 1 ELSE 0)
        /\ n_release = 1 =>
              /\ alloc = "freed" /\ ~in_list /\ n_gpiod_put = 1
              /\ ~timer_pending /\ gpio_value = LOGIC_LOW /\ kref = 0

\* the law's case: all MaxHandles handles were taken and released, the binding
\* was withdrawn, and the release has run
C2_Witness ==
    /\ n_release = 1 /\ ~bound
    /\ n_get = MaxHandles /\ n_put = n_get
    /\ last.op = "status"

\* C3: a write of a text that is no integer, or of a negative integer, to any
\* attribute fails, i.e. returns an error (a store reports one by a negative
\* return; a positive return is a count of bytes written), and changes no
\* field of the line, nor the timer, nor the output.
C3_InvalidWriteRejected ==
    [][(\E a \in Attributes : \E b \in BadBufs : write_sysfs_attribute(a, b))
        => (ret' < 0 /\ UNCHANGED <<lineVars, hwVars>>)]_vars

\* C4: a write to status of an integer other than 0 and 1 does not return the
\* success byte count and changes no field of the line (counter included).
C4_StatusRangeRejected ==
    [][\A v \in StatusVals \ {LOGIC_LOW, LOGIC_HIGH} :
          write_sysfs_attribute("status", Fmt(v))
              => (ret' # Len(Fmt(v)) /\ UNCHANGED <<lineVars, hwVars>>)]_vars

\* C5: whenever the line is disabled, its level is LOW, the value last applied
\* to the output is LOW and the timer is not armed.
C5_DisabledIsLowAndIdle ==
    (alloc = "live" /\ ~pin_ctl_enabled) =>
        /\ pin_logic_level = LOGIC_LOW
        /\ gpio_value = LOGIC_LOW
        /\ ~timer_pending

\* the invariant's case: a line disabled by a status=0 write, after writes that
\* set a positive period and the largest on_cycles
C5_Witness ==
    /\ alloc = "live" /\ ~pin_ctl_enabled
    /\ last = [op |-> "status", val |-> LOGIC_LOW]
    /\ pulse_period > 0 /\ on_cycles = MaxCycles

\* C6: whenever pulse_period is 0 the timer is not armed.
C6_ZeroPeriodNoTimer ==
    (alloc = "live" /\ pulse_period = 0) => ~timer_pending

\* C7: the BUG_ON(off_cycles == 0) of the callback never fires.
C7_BugOnUnreachable == ~bug

\* C8: after a successful on_cycles or off_cycles write on an enabled line the
\* counter is 0, and the callback that runs next does what the first callback
\* of a fresh cycle (level HIGH, counter 0) does.
C8_CycleWriteRestartsHigh ==
    [][(/\ alloc = "live" /\ pin_ctl_enabled /\ run = 0
        /\ last.op \in {"on_cycles", "off_cycles"}
        /\ (lr_interval_cb \/ hr_interval_cb))
        => LET fresh == interval_step(LOGIC_HIGH, 0, on_cycles, off_cycles)
           IN  /\ counter = 0
               /\ ~bug'
               /\ gpio_value' = fresh.level
               /\ counter' = fresh.counter]_vars

\* the clock resolution R, in requests per second
Resolution == IF hr THEN US_PER_SEC ELSE KERNEL_HERTZ

\* C10 (frequency clamping): a freq write of f > 0 leaves pulse_period > 0, and
\* for f above the clock resolution R it leaves the period that freq = R gives.
C10_FrequencyClamped ==
    [][\A f \in FreqVals \ {0} :
          write_sysfs_attribute("freq", Fmt(f))
              => /\ pulse_period' > 0
                 /\ f > Resolution =>
                        pulse_period' = set_gls_frequency(Resolution).pulse_period]_vars

\* C9: once a freq=0 write has returned, and until the next write, pulse_period
\* is 0 and the timer is not armed.
C9_FreqZeroDisarms ==
    (alloc = "live" /\ wr = NoWrite /\ last = [op |-> "freq", val |-> 0]) =>
        /\ pulse_period = 0
        /\ ~timer_pending

\* C11: on a line enabled by status=1 with a positive period, on_cycles >= 1
\* and off_cycles >= 1, with no write since: the first HIGH phase, which begins
\* at the write, lasts exactly on_cycles ticks, i.e. the callbacks before the
\* on_cycles-th one apply HIGH and the on_cycles-th one applies LOW; with
\* on_cycles = 1 and off_cycles = 1 every callback, the first one included,
\* inverts the output.
C11_FirstHighPhase ==
    [][(/\ Pulsing /\ on_cycles >= 1 /\ off_cycles >= 1
        /\ (lr_interval_cb \/ hr_interval_cb))
        => /\ (on_cycles = 1 /\ off_cycles = 1) => gpio_value' # gpio_value
           /\ (first_phase /\ gpio_value = LOGIC_HIGH) =>
                  (gpio_value' = LOGIC_LOW <=> run = on_cycles - 1)]_vars

\* C12: on a line enabled by status=1 with a positive period, on_cycles = 0 and
\* off_cycles = k > 0, with no write since: the output is HIGH at the write
\* only, the first callback applies LOW, the callbacks apply LOW k times in a
\* row, and the callback after the k-th applies HIGH.
C12_ZeroOnCycles ==
    [][(/\ Pulsing /\ on_cycles = 0 /\ off_cycles > 0
        /\ (lr_interval_cb \/ hr_interval_cb))
        => /\ run = 0 => (gpio_value = LOGIC_HIGH /\ gpio_value' = LOGIC_LOW)
           /\ gpio_value = LOGIC_LOW =>
                  /\ run <= off_cycles
                  /\ gpio_value' = (IF run < off_cycles THEN LOGIC_LOW ELSE LOGIC_HIGH)]_vars

\* the scenario's end: with the largest k, the output went LOW, stayed LOW and
\* a callback has just taken it back to HIGH
C12_Witness ==
    /\ Pulsing /\ on_cycles = 0 /\ off_cycles = MaxCycles
    /\ ~first_phase /\ gpio_value = LOGIC_HIGH /\ run = 1

\* C13 (idempotence of disable): in every state where the line is disabled, a
\* status=0 write leaves pulse_period, on_cycles, off_cycles, counter, the
\* enabled flag and the level as they were, leaves the timer disarmed, and the
\* output is LOW afterwards.
C13_DisableIdempotent ==
    [][(/\ ~pin_ctl_enabled /\ wr = NoWrite
        /\ write_sysfs_attribute("status", Fmt(LOGIC_LOW)))
        => /\ UNCHANGED <<lineVars, timer_pending>>
           /\ ~timer_pending'
           /\ gpio_value' = LOGIC_LOW]_vars

\* C14: under every interleaving of a status=0 write with the line's own
\* callback, from the return of the write until the next write the line is
\* disabled, its level is LOW, the value last applied to the output is LOW and
\* the timer is not armed.
C14_DisableIsFinal ==
    (alloc = "live" /\ wr = NoWrite /\ last = [op |-> "status", val |-> LOGIC_LOW]) =>
        /\ ~pin_ctl_enabled
        /\ pin_logic_level = LOGIC_LOW
        /\ gpio_value = LOGIC_LOW
        /\ ~timer_pending

\* C15 (teardown order): the release cancels the timer and waits for a callback
\* in flight before it drives the output LOW, puts the descriptor and unlinks
\* the line; so the line is freed only while no callback runs, and once it is
\* freed no callback runs or is armed, the value last applied to the output is
\* LOW, the descriptor has been put once and the line is off the list.
C15_TeardownOrder ==
    /\ [](alloc = "freed" =>
            /\ cb = "idle" /\ ~timer_pending
            /\ gpio_value = LOGIC_LOW
            /\ n_gpiod_put = 1 /\ ~in_list)
    /\ [][(alloc = "live" /\ alloc' = "freed") => cb = "idle"]_vars

\* the order's case: the binding was withdrawn from a pulsing line whose
\* callbacks had run and whose level was HIGH, and the release has run
C15_Witness ==
    /\ alloc = "freed" /\ n_release = 1
    /\ pin_ctl_enabled /\ pulse_period > 0
    /\ run >= 1 /\ pin_logic_level = LOGIC_HIGH

\* C16: a probe that succeeds leaves the line disabled, with level LOW,
\* pulse_period 0, on_cycles 1, off_cycles 1, counter 0, no timer armed, on the
\* list and with a reference count of 1.
C16_BoundLineDefaults ==
    [][((\E o \in ProbeOutcomes : gpio_probe_func(o)) /\ alloc' = "live")
        => /\ ~pin_ctl_enabled' /\ pin_logic_level' = LOGIC_LOW
           /\ pulse_period' = 0 /\ on_cycles' = 1 /\ off_cycles' = 1
           /\ counter' = 0 /\ ~timer_pending'
           /\ in_list' /\ kref' = 1]_vars

\* a line just bound, before any write or handle
C16_Witness ==
    /\ alloc = "live" /\ bound /\ last.op = "probe"
    /\ n_get = 0 /\ in_list /\ kref = 1

\* C17: in each run of the callback on an enabled line, in both timer builds,
\* the new level has been computed and applied to the output before the
\* callback re-arms the timer: the re-arming step is taken only from the point
\* that the applying step (cb_apply) leads to.
C17_ApplyBeforeArm ==
    [][(lr_rearm \/ hr_restart) => cb = "restart"]_vars

\* C18 (counter bound): in every state of a line, 0 <= counter <= on_cycles +
\* off_cycles.
C18_CounterBound ==
    alloc = "live" => (0 <= counter /\ counter <= on_cycles + off_cycles)

\* C19: a read of freq is defined in every state: it does not fault, and it
\* returns 0 when pulse_period is 0 and ticks-per-second / pulse_period
\* otherwise (as decimal text and a newline).
C19_FreqReadDefined ==
    [][(\E o \in DivZeroOutcomes : read_sysfs_attribute("freq", o))
        => /\ ~rd'.fault
           /\ rd'.text = Fmt(IF pulse_period = 0 THEN 0
                             ELSE TicksPerSecond \div pulse_period) \o <<"\n">>]_vars

\* C20 (output/level agreement): after every write and every callback the
\* value last applied to the output is the line's level field; in particular
\* after a freq write, freq=0 included, on an enabled line whose level is LOW.
C20_OutputIsLevel ==
    alloc = "live" => gpio_value = pin_logic_level

\* C21 (single owner reference): over every sequence of probe, handle get and
\* put, rm_func and cleanup, the driver's own reference to a line is dropped
\* exactly once: the reference count never goes below zero, the release runs
\* at most once, and it never runs while a handle is outstanding.
C21_SingleOwnerReference ==
    /\ [](kref >= 0 /\ n_release <= 1)
    /\ [](alloc = "live" => kref = handles + (IF bound THEN 1 ELSE 0))
    /\ [][n_release' # n_release => handles' = 0]_vars

=============================================================================
